---- MODULE Spec2Model ----
(***************************************************************************)
(* SeqLib BamRecord.h: CigarField / Cigar / BamRecord.                     *)
(*                                                                         *)
(* A BamRecord is a handle (std::shared_ptr<bam1_t> b) onto a bam1_t: the  *)
(* fixed core fields plus one variable-length byte buffer laid out as      *)
(*   qname | cigar (4 bytes per op) | packed seq | qual | aux (tags).      *)
(* The heap maps buffer ids to bam1_t values, b maps every handle to a     *)
(* buffer id (NULL when the handle is empty), cig is a stand-alone Cigar   *)
(* object, alias is the set of handle pairs of which one was made as a     *)
(* copy of the other, and last is the most recent call with its return     *)
(* value.                                                                  *)
(***************************************************************************)
EXTENDS Integers, Sequences, FiniteSets, TLC

VARIABLES heap, b, cig, alias, last

vars == <<heap, b, cig, alias, last>>

(***************************************************************************)
(* Bounds of the model.                                                    *)
(***************************************************************************)
MaxPos == 2      \* positions are drawn from 0..MaxPos
MaxTid == 1      \* reference ids are drawn from 0..MaxTid
MaxOps == 3      \* a record's CIGAR holds at most MaxOps operations
MaxQLen == 3     \* stored query lengths are drawn from 0..MaxQLen
MaxTags == 3     \* at most MaxTags tag entries are appended to a buffer
MaxAdd == 2      \* at most MaxAdd fields are added to the stand-alone Cigar

NULL == 0

(***************************************************************************)
(* Fixed-width integers and bytes.                                         *)
(***************************************************************************)
\* TLC's integers are 32-bit signed, so a 32-bit word is handled by its
\* four bytes and never as a number of 2^31 or more.
\* the four bytes of an int32_t / uint32_t as they lie in memory (little
\* endian, two's complement: \div rounds down and % is never negative)
LE32(w) ==
  << w % 256, (w \div 256) % 256,
     (w \div 65536) % 256, (w \div 16777216) % 256 >>

\* the uint32_t read at byte offset o (0-based) of a buffer
U32At(data, o) ==
  data[o + 1] + 256 * data[o + 2] + 65536 * data[o + 3] + 16777216 * data[o + 4]

\* the int32_t read at byte offset o (0-based) of a buffer
I32At(data, o) ==
  data[o + 1] + 256 * data[o + 2] + 65536 * data[o + 3]
  + 16777216 * (IF data[o + 4] >= 128 THEN data[o + 4] - 256 ELSE data[o + 4])

\* x & m for a single-bit mask m
BitAnd(x, m) == ((x \div m) % 2) * m

RECURSIVE Flatten(_)
Flatten(ss) == IF ss = <<>> THEN <<>> ELSE Head(ss) \o Flatten(Tail(ss))

(***************************************************************************)
(* sam.h flag bits and CIGAR macros, as BamRecord.h uses them.             *)
(***************************************************************************)
BAM_FPAIRED == 1
BAM_FPROPER_PAIR == 2
BAM_FUNMAP == 4
BAM_FMUNMAP == 8
BAM_FREVERSE == 16
BAM_FMREVERSE == 32

BAM_CIGAR_SHIFT == 4
BAM_CIGAR_MASK == 15
\* 0x3C1A7: bit 0 of entry k is consumes-query, bit 1 consumes-reference
BAM_CIGAR_TYPE == 246183

\* the kind alphabet, index = kind code
BAM_CIGAR_STR == <<"M", "I", "D", "N", "S", "H", "P", "=", "X", "B">>

bam_cigar_op(c) == c % (BAM_CIGAR_MASK + 1)
bam_cigar_oplen(c) == c \div (2 ^ BAM_CIGAR_SHIFT)
bam_cigar_opchr(c) == BAM_CIGAR_STR[bam_cigar_op(c) + 1]
bam_cigar_type(o) == (BAM_CIGAR_TYPE \div (2 ^ (2 * o))) % 4
bam_cigar_gen(l, o) == l * (2 ^ BAM_CIGAR_SHIFT) + o

FRORIENTATION == 0
FFORIENTATION == 1
RFORIENTATION == 2
RRORIENTATION == 3
UDORIENTATION == 4
\* the value standing for "assert(false) was reached"
AssertFailed == -1

(***************************************************************************)
(* Layout of the variable-length buffer of a bam1_t r.                     *)
(***************************************************************************)
\* byte offset of the CIGAR array: bam_get_cigar
bam_get_cigar(r) == r.l_qname
\* byte offset of the aux region: bam_get_aux
bam_get_aux(r) ==
  r.n_cigar * 4 + r.l_qname + r.l_qseq + ((r.l_qseq + 1) \div 2)
\* c[i] for the uint32_t* c = bam_get_cigar(b), i 0-based
CigarWord(r, i) == U32At(r.data, bam_get_cigar(r) + 4 * i)

\* the packed sequence of n bases 'A' (code 1), two bases per byte
PackedA(n) ==
  [i \in 1..((n + 1) \div 2) |-> IF 2 * i <= n THEN 17 ELSE 16]

\* a record as the constructor lays it out: NUL-terminated name, cigar
\* words, packed sequence, quality bytes, no tags
MakeRecord(name, cigar, lq, flag, tid, pos, mtid, mpos) ==
  LET data == name \o <<0>> \o Flatten([i \in 1..Len(cigar) |-> LE32(cigar[i])])
              \o PackedA(lq) \o [i \in 1..lq |-> 255]
  IN [tid |-> tid, pos |-> pos, qual |-> 60, l_qname |-> Len(name) + 1,
      flag |-> flag, n_cigar |-> Len(cigar), l_qseq |-> lq,
      mtid |-> mtid, mpos |-> mpos,
      l_data |-> Len(data), m_data |-> Len(data), data |-> data]

\* the bam1_t behind handle h (only where b[h] # NULL)
Rec(h) == heap[b[h]]

NoCall == [op |-> "none", h |-> 0, arg |-> <<>>, val |-> 0]
Call(op, h, arg, val) == [op |-> op, h |-> h, arg |-> arg, val |-> val]

(***************************************************************************)
(* Flags and orientation.                                                  *)
(***************************************************************************)
ReverseFlag(h) ==
  IF b[h] # NULL THEN BitAnd(Rec(h).flag, BAM_FREVERSE) # 0 ELSE FALSE

MateReverseFlag(h) ==
  IF b[h] # NULL THEN BitAnd(Rec(h).flag, BAM_FMREVERSE) # 0 ELSE FALSE

PairedFlag(h) ==
  IF b[h] # NULL THEN BitAnd(Rec(h).flag, BAM_FPAIRED) # 0 ELSE FALSE

MappedFlag(h) ==
  IF b[h] # NULL THEN BitAnd(Rec(h).flag, BAM_FUNMAP) = 0 ELSE FALSE

MateMappedFlag(h) ==
  IF b[h] # NULL THEN BitAnd(Rec(h).flag, BAM_FMUNMAP) = 0 ELSE FALSE

PairMappedFlag(h) ==
  IF b[h] # NULL
  THEN /\ BitAnd(Rec(h).flag, BAM_FMUNMAP) = 0
       /\ BitAnd(Rec(h).flag, BAM_FUNMAP) = 0
       /\ BitAnd(Rec(h).flag, BAM_FPAIRED) # 0
  ELSE FALSE

ProperPair(h) ==
  IF b[h] # NULL THEN BitAnd(Rec(h).flag, BAM_FPROPER_PAIR) # 0 ELSE FALSE

Position(h) == IF b[h] # NULL THEN Rec(h).pos ELSE -1
MatePosition(h) == IF b[h] # NULL THEN Rec(h).mpos ELSE -1
ChrID(h) == IF b[h] # NULL THEN Rec(h).tid ELSE -1
MateChrID(h) == IF b[h] # NULL THEN Rec(h).mtid ELSE -1
MapQuality(h) == IF b[h] # NULL THEN Rec(h).qual ELSE -1

\* the first branch dropped its position test
PairOrientation_NoPos(h) ==
  IF ~PairMappedFlag(h) THEN UDORIENTATION
  ELSE IF \/ (~ReverseFlag(h) /\ MateReverseFlag(h))
          \/ (ReverseFlag(h) /\ ~MateReverseFlag(h))
       THEN FRORIENTATION
  ELSE IF ~ReverseFlag(h) /\ ~MateReverseFlag(h) THEN FFORIENTATION
  ELSE IF ReverseFlag(h) /\ MateReverseFlag(h) THEN RRORIENTATION
  ELSE RFORIENTATION

PairOrientation(h) ==
  IF ~PairMappedFlag(h) THEN UDORIENTATION
  ELSE IF \/ (~ReverseFlag(h) /\ Position(h) <= MatePosition(h) /\ MateReverseFlag(h))
          \/ (ReverseFlag(h) /\ Position(h) >= MatePosition(h) /\ ~MateReverseFlag(h))
       THEN FRORIENTATION
  ELSE IF ~ReverseFlag(h) /\ ~MateReverseFlag(h) THEN FFORIENTATION
  ELSE IF ReverseFlag(h) /\ MateReverseFlag(h) THEN RRORIENTATION
  ELSE IF \/ (ReverseFlag(h) /\ Position(h) < MatePosition(h) /\ ~MateReverseFlag(h))
          \/ (~ReverseFlag(h) /\ Position(h) > MatePosition(h) /\ MateReverseFlag(h))
       THEN RFORIENTATION
  ELSE AssertFailed

ProperOrientation(h) ==
  IF b[h] = NULL THEN FALSE
  ELSE IF Rec(h).tid # Rec(h).mtid THEN FALSE
  ELSE IF Rec(h).pos < Rec(h).mpos
       THEN IF BitAnd(Rec(h).flag, BAM_FREVERSE) = 0 /\ BitAnd(Rec(h).flag, BAM_FMREVERSE) # 0
            THEN TRUE ELSE FALSE
       ELSE IF BitAnd(Rec(h).flag, BAM_FREVERSE) = 0 /\ BitAnd(Rec(h).flag, BAM_FMREVERSE) # 0
            THEN FALSE ELSE TRUE

CallPairOrientation(h) ==
  /\ last' = Call("PairOrientation", h, <<>>, PairOrientation(h))
  /\ UNCHANGED <<heap, b, cig, alias>>

CallProperOrientation(h) ==
  /\ last' = Call("ProperOrientation", h, <<>>, ProperOrientation(h))
  /\ UNCHANGED <<heap, b, cig, alias>>

CallPairMappedFlag(h) ==
  /\ last' = Call("PairMappedFlag", h, <<>>, PairMappedFlag(h))
  /\ UNCHANGED <<heap, b, cig, alias>>

(***************************************************************************)
(* Orientation specification: one record with every combination of the     *)
(* six low flag bits, reference ids and positions, and one empty handle.   *)
(***************************************************************************)
NameR == <<114>>

InitOrient ==
  /\ \E flag \in 0..63, tid \in 0..MaxTid, mtid \in 0..MaxTid,
        pos \in 0..MaxPos, mpos \in 0..MaxPos :
       heap = [i \in {1} |->
                 MakeRecord(NameR, <<bam_cigar_gen(2, 0)>>, 2, flag, tid, pos, mtid, mpos)]
  /\ b = <<1, NULL>>
  /\ cig = <<>>
  /\ alias = {}
  /\ last = NoCall

NextOrient ==
  \/ \E h \in DOMAIN b : CallPairOrientation(h)
  \/ \E h \in DOMAIN b : CallProperOrientation(h)
  \/ \E h \in DOMAIN b : CallPairMappedFlag(h)

SpecOrient == InitOrient /\ [][NextOrient]_vars

(***************************************************************************)
(* C1, C2: orientation.                                                    *)
(***************************************************************************)
\* the orientation table, row by row: the results of the rows that match
OrientationRows(pm, r, mr, pos, mpos) ==
     (IF ~pm THEN {UDORIENTATION} ELSE {})
  \cup (IF pm /\ ~r /\ mr /\ pos <= mpos THEN {FRORIENTATION} ELSE {})
  \cup (IF pm /\ r /\ ~mr /\ pos >= mpos THEN {FRORIENTATION} ELSE {})
  \cup (IF pm /\ ~r /\ ~mr THEN {FFORIENTATION} ELSE {})
  \cup (IF pm /\ r /\ mr THEN {RRORIENTATION} ELSE {})
  \cup (IF pm /\ r /\ ~mr /\ pos < mpos THEN {RFORIENTATION} ELSE {})
  \cup (IF pm /\ ~r /\ mr /\ pos > mpos THEN {RFORIENTATION} ELSE {})

\* PairMapped = Paired /\ Mapped /\ MateMapped
PairMapped(h) == PairedFlag(h) /\ MappedFlag(h) /\ MateMappedFlag(h)

\* C1: PairOrientation returns the one value the orientation table gives:
\* Undefined when PairMapped is false, and otherwise exactly one of FR, FF,
\* RF, RR, never Undefined and never the failed assertion.
C1_PairOrientationTotal ==
  last.op = "PairOrientation" =>
    /\ OrientationRows(PairMapped(last.h), ReverseFlag(last.h), MateReverseFlag(last.h),
                       Position(last.h), MatePosition(last.h)) = {last.val}
    /\ PairMappedFlag(last.h) = PairMapped(last.h)
    /\ last.val # AssertFailed
    /\ PairMapped(last.h) =>
         last.val \in {FRORIENTATION, FFORIENTATION, RFORIENTATION, RRORIENTATION}
    /\ ~PairMapped(last.h) => last.val = UDORIENTATION

\* a mapped pair, own read forward and after its reverse mate: ReverseForward
C1_Witness ==
  /\ last.op = "PairOrientation"
  /\ PairMapped(last.h)
  /\ ~ReverseFlag(last.h) /\ MateReverseFlag(last.h)
  /\ Position(last.h) > MatePosition(last.h)
  /\ last.val = RFORIENTATION

\* C2: ProperOrientation is false across reference ids and otherwise true
\* exactly when the lower-position read is forward and the higher-position
\* read is reverse (at equal positions: one forward, the other reverse),
\* whatever the stored proper-pair bit.
C2_ProperOrientationIsFR ==
  (last.op = "ProperOrientation" /\ b[last.h] # NULL) =>
    LET r == Rec(last.h)
        own == BitAnd(r.flag, BAM_FREVERSE) # 0
        mate == BitAnd(r.flag, BAM_FMREVERSE) # 0
    IN last.val =
         /\ r.tid = r.mtid
         /\ \/ (r.pos < r.mpos /\ ~own /\ mate)
            \/ (r.pos > r.mpos /\ ~mate /\ own)
            \/ (r.pos = r.mpos /\ own # mate)

(***************************************************************************)
(* Position and clip arithmetic over the CIGAR array of a record.          *)
(***************************************************************************)
IsClip(c) == bam_cigar_opchr(c) = "S" \/ bam_cigar_opchr(c) = "H"

\* the loop of an index i running up (step 1) or down (step -1) that adds
\* clip lengths and breaks at the first operation that is no clip
RECURSIVE ClipScan(_, _, _, _)
ClipScan(r, i, step, p) ==
  IF i >= 0 /\ i < r.n_cigar
  THEN IF IsClip(CigarWord(r, i))
       THEN ClipScan(r, i + step, step, p + bam_cigar_oplen(CigarWord(r, i)))
       ELSE p
  ELSE p

\* the loop over every i in [i, n_cigar) that adds the lengths of the
\* operations whose character is in chars
RECURSIVE SumScan(_, _, _, _)
SumScan(r, i, chars, p) ==
  IF i < r.n_cigar
  THEN SumScan(r, i + 1, chars,
               IF bam_cigar_opchr(CigarWord(r, i)) \in chars
               THEN p + bam_cigar_oplen(CigarWord(r, i)) ELSE p)
  ELSE p

Length(h) == Rec(h).l_qseq

\* the scan does not stop at the first operation that is no clip
AlignmentPosition_NoBreak(h) == SumScan(Rec(h), 0, {"S", "H"}, 0)

AlignmentPosition(h) == ClipScan(Rec(h), 0, 1, 0)

AlignmentEndPosition(h) ==
  Rec(h).l_qseq - ClipScan(Rec(h), Rec(h).n_cigar - 1, -1, 0)

NumSoftClip(h) == SumScan(Rec(h), 0, {"S"}, 0)

NumHardClip(h) == SumScan(Rec(h), 0, {"H"}, 0)

\* the scan stops at the first operation that is no clip
NumClip_Break(h) == ClipScan(Rec(h), 0, 1, 0)

NumClip(h) == SumScan(Rec(h), 0, {"S", "H"}, 0)

CallAlignmentPosition(h) ==
  /\ b[h] # NULL
  /\ last' = Call("AlignmentPosition", h, <<>>, AlignmentPosition(h))
  /\ UNCHANGED <<heap, b, cig, alias>>

CallAlignmentEndPosition(h) ==
  /\ b[h] # NULL
  /\ last' = Call("AlignmentEndPosition", h, <<>>, AlignmentEndPosition(h))
  /\ UNCHANGED <<heap, b, cig, alias>>

CallNumSoftClip(h) ==
  /\ b[h] # NULL
  /\ last' = Call("NumSoftClip", h, <<>>, NumSoftClip(h))
  /\ UNCHANGED <<heap, b, cig, alias>>

CallNumHardClip(h) ==
  /\ b[h] # NULL
  /\ last' = Call("NumHardClip", h, <<>>, NumHardClip(h))
  /\ UNCHANGED <<heap, b, cig, alias>>

CallNumClip(h) ==
  /\ b[h] # NULL
  /\ last' = Call("NumClip", h, <<>>, NumClip(h))
  /\ UNCHANGED <<heap, b, cig, alias>>

(***************************************************************************)
(* Clip specification: one record for every CIGAR of at most MaxOps        *)
(* operations over the kinds the routines compare against and every stored *)
(* query length, and the record 10S80M10S of query length 100.             *)
(***************************************************************************)
\* kind codes of M, I, D, S, H
ScanKinds == {0, 1, 2, 4, 5}
OpLens == {1, 2}
ScanOps == {bam_cigar_gen(l, k) : l \in OpLens, k \in ScanKinds}
BoundedCigars == UNION {[1..n -> ScanOps] : n \in 0..MaxOps}

ExampleCigar == <<bam_cigar_gen(10, 4), bam_cigar_gen(80, 0), bam_cigar_gen(10, 4)>>

InitCigar ==
  /\ \E in \in (BoundedCigars \X (0..MaxQLen)) \cup {<<ExampleCigar, 100>>} :
       heap = [i \in {1} |-> MakeRecord(NameR, in[1], in[2], 0, 0, 0, 0, 0)]
  /\ b = <<1>>
  /\ cig = <<>>
  /\ alias = {}
  /\ last = NoCall

NextCigar ==
  \/ \E h \in DOMAIN b : CallAlignmentPosition(h)
  \/ \E h \in DOMAIN b : CallAlignmentEndPosition(h)
  \/ \E h \in DOMAIN b : CallNumSoftClip(h)
  \/ \E h \in DOMAIN b : CallNumHardClip(h)
  \/ \E h \in DOMAIN b : CallNumClip(h)

SpecCigar == InitCigar /\ [][NextCigar]_vars

(***************************************************************************)
(* C3, C4: clips.                                                          *)
(***************************************************************************)
\* the operations of a record as <<kind code, length>> pairs
OpsOf(r) ==
  [i \in 1..r.n_cigar |->
     LET w == U32At(r.data, r.l_qname + 4 * (i - 1)) IN <<w % 16, w \div 16>>]

ClipKind(op) == op[1] = 4 \/ op[1] = 5

RECURSIVE SumLens(_)
SumLens(ops) == IF ops = <<>> THEN 0 ELSE Head(ops)[2] + SumLens(Tail(ops))

\* length of the longest prefix / suffix of ops made of clips only
LeadRun(ops) ==
  CHOOSE k \in 0..Len(ops) :
    /\ \A j \in 1..k : ClipKind(ops[j])
    /\ k < Len(ops) => ~ClipKind(ops[k + 1])
TrailRun(ops) ==
  CHOOSE k \in 0..Len(ops) :
    /\ \A j \in (Len(ops) - k + 1)..Len(ops) : ClipKind(ops[j])
    /\ k < Len(ops) => ~ClipKind(ops[Len(ops) - k])

LeadClip(ops) == SumLens(SubSeq(ops, 1, LeadRun(ops)))
TrailClip(ops) == SumLens(SubSeq(ops, Len(ops) - TrailRun(ops) + 1, Len(ops)))

IsExample(r) ==
  OpsOf(r) = <<<<4, 10>>, <<0, 80>>, <<4, 10>>>> /\ r.l_qseq = 100

\* C3: AlignmentPosition is the summed length of the leading run of clips,
\* AlignmentEndPosition the stored query length minus the summed length of
\* the trailing run of clips; 10S80M10S of length 100 gives 10 and 90.
C3_AlignmentPositions ==
  /\ last.op = "AlignmentPosition" =>
        /\ last.val = LeadClip(OpsOf(Rec(last.h)))
        /\ IsExample(Rec(last.h)) => last.val = 10
  /\ last.op = "AlignmentEndPosition" =>
        /\ last.val = Rec(last.h).l_qseq - TrailClip(OpsOf(Rec(last.h)))
        /\ IsExample(Rec(last.h)) => last.val = 90

C3_Witness ==
  /\ last.op = "AlignmentEndPosition"
  /\ IsExample(Rec(last.h))
  /\ last.val = 90

\* C4: NumSoftClip + NumHardClip = NumClip for any CIGAR, where NumSoftClip
\* and NumHardClip sum the soft / hard clip lengths anywhere in the CIGAR.
C4_ClipSum ==
  LET ops == OpsOf(Rec(last.h))
      soft == SumLens(SelectSeq(ops, LAMBDA op : op[1] = 4))
      hard == SumLens(SelectSeq(ops, LAMBDA op : op[1] = 5))
  IN /\ last.op = "NumClip" =>
          /\ last.val = NumSoftClip(last.h) + NumHardClip(last.h)
          /\ last.val = soft + hard
     /\ last.op = "NumSoftClip" => last.val = soft
     /\ last.op = "NumHardClip" => last.val = hard

\* a soft clip and a hard clip with an operation that is no clip before them
C4_Witness ==
  /\ last.op = "NumClip"
  /\ LET ops == OpsOf(Rec(last.h))
     IN /\ Len(ops) = 3 /\ ~ClipKind(ops[1])
        /\ ops[2][1] = 4 /\ ops[3][1] = 5
        /\ last.val = ops[2][2] + ops[3][2]

(***************************************************************************)
(* The tag store: the aux region of the buffer, through sam.h's            *)
(* bam_aux_get / bam_aux2i / bam_aux_append / bam_aux_del.  A pointer into *)
(* the buffer is its 0-based byte offset; the null pointer is NULL.        *)
(***************************************************************************)
TypeInt == 105      \* 'i'
TypeZ == 90         \* 'Z'

\* payload size of a fixed-size type code; 'Z' and 'H' stand for themselves
aux_type2size(type) ==
  CASE type \in {65, 99, 67} -> 1          \* A c C
    [] type \in {115, 83} -> 2             \* s S
    [] type \in {105, 73, 102} -> 4        \* i I f
    [] type = 100 -> 8                     \* d
    [] type \in {90, 72} -> type           \* Z H
    [] OTHER -> 0

\* offset of the first NUL at or after s
RECURSIVE NulFrom(_, _)
NulFrom(data, s) == IF data[s + 1] = 0 THEN s ELSE NulFrom(data, s + 1)

\* s points at the type byte of an entry; the offset just past the entry
skip_aux(data, s) ==
  LET size == aux_type2size(data[s + 1])
  IN IF size \in {90, 72} THEN NulFrom(data, s + 1) + 1 ELSE s + 1 + size

\* forward scan for the first entry whose key is tag; points at its type byte
RECURSIVE AuxScan(_, _, _)
AuxScan(r, s, tag) ==
  IF s < r.l_data
  THEN IF r.data[s + 1] * 256 + r.data[s + 2] = tag[1] * 256 + tag[2]
       THEN s + 2
       ELSE AuxScan(r, skip_aux(r.data, s + 2), tag)
  ELSE NULL

bam_aux_get(r, tag) == AuxScan(r, bam_get_aux(r), tag)

\* the integer value of the entry whose type byte is at p; 0 for other types
bam_aux2i(r, p) ==
  LET type == r.data[p + 1]
      s == p + 1
  IN CASE type = 99 -> IF r.data[s + 1] >= 128 THEN r.data[s + 1] - 256 ELSE r.data[s + 1]
       [] type = 67 -> r.data[s + 1]
       [] type = 115 -> LET u == r.data[s + 1] + 256 * r.data[s + 2]
                        IN IF u >= 32768 THEN u - 65536 ELSE u
       [] type = 83 -> r.data[s + 1] + 256 * r.data[s + 2]
       [] type \in {105, 73} -> I32At(r.data, s)
       [] OTHER -> 0

\* smallest power of two that is at least x
RECURSIVE RoundUp(_, _)
RoundUp(x, p) == IF p >= x THEN p ELSE RoundUp(x, 2 * p)
kroundup32(x) == RoundUp(x, 1)

\* append key, type and len payload bytes at the end of the buffer
bam_aux_append(r, tag, type, len, bytes) ==
  LET l == r.l_data + 3 + len
  IN [r EXCEPT !.l_data = l,
               !.m_data = IF r.m_data < l THEN kroundup32(l) ELSE r.m_data,
               !.data = r.data \o <<tag[1], tag[2], type>> \o SubSeq(bytes, 1, len)]

\* delete the entry whose type byte is at s, moving the rest down
bam_aux_del(r, s) ==
  LET p == s - 2
      e == skip_aux(r.data, s)
  IN [r EXCEPT !.l_data = r.l_data - (e - p),
               !.data = SubSeq(r.data, 1, p) \o SubSeq(r.data, e + 1, r.l_data)]

\* number of entries in the aux region from offset s on
RECURSIVE AuxCount(_, _)
AuxCount(r, s) ==
  IF s < r.l_data THEN 1 + AuxCount(r, skip_aux(r.data, s + 2)) ELSE 0

\* an absent tag reads as -1
GetIntTag_AbsentMinusOne(h, tag) ==
  LET p == bam_aux_get(Rec(h), tag)
  IN IF p = NULL THEN -1 ELSE bam_aux2i(Rec(h), p)

\* the scan keeps the last match instead of returning the first
RECURSIVE LastMatch(_, _, _, _)
LastMatch(r, s, tag, found) ==
  IF s < r.l_data
  THEN LastMatch(r, skip_aux(r.data, s + 2), tag,
                 IF r.data[s + 1] * 256 + r.data[s + 2] = tag[1] * 256 + tag[2]
                 THEN s + 2 ELSE found)
  ELSE found
GetIntTag_LastMatch(h, tag) ==
  LET p == LastMatch(Rec(h), bam_get_aux(Rec(h)), tag, NULL)
  IN IF p = NULL THEN 0 ELSE bam_aux2i(Rec(h), p)

\* GetIntTag on the bam1_t r
IntTagOf(r, tag) ==
  LET p == bam_aux_get(r, tag)
  IN IF p = NULL THEN 0 ELSE bam_aux2i(r, p)

GetIntTag(h, tag) == IntTagOf(Rec(h), tag)

CallGetIntTag(h, tag) ==
  /\ b[h] # NULL
  /\ last' = Call("GetIntTag", h, tag, GetIntTag(h, tag))
  /\ UNCHANGED <<heap, b, cig, alias>>

AddIntTag(h, tag, val) ==
  /\ b[h] # NULL
  /\ AuxCount(Rec(h), bam_get_aux(Rec(h))) < MaxTags
  /\ heap' = [heap EXCEPT ![b[h]] = bam_aux_append(@, tag, TypeInt, 4, LE32(val))]
  /\ last' = Call("AddIntTag", h, tag, val)
  /\ UNCHANGED <<b, cig, alias>>

\* val is appended with its terminating NUL
AddZTag(h, tag, val) ==
  /\ b[h] # NULL
  /\ AuxCount(Rec(h), bam_get_aux(Rec(h))) < MaxTags
  /\ heap' = [heap EXCEPT ![b[h]] =
                 bam_aux_append(@, tag, TypeZ, Len(val) + 1, val \o <<0>>)]
  /\ last' = Call("AddZTag", h, tag, 0)
  /\ UNCHANGED <<b, cig, alias>>

\* every entry with the key is deleted, not only the first
RECURSIVE DelAll(_, _)
DelAll(r, tag) ==
  IF bam_aux_get(r, tag) = NULL THEN r ELSE DelAll(bam_aux_del(r, bam_aux_get(r, tag)), tag)
RemoveTag_All(h, tag) ==
  /\ b[h] # NULL
  /\ heap' = [heap EXCEPT ![b[h]] = DelAll(@, tag)]
  /\ last' = Call("RemoveTag", h, tag, 0)
  /\ UNCHANGED <<b, cig, alias>>

RemoveTag(h, tag) ==
  /\ b[h] # NULL
  /\ LET p == bam_aux_get(Rec(h), tag)
     IN heap' = [heap EXCEPT ![b[h]] = IF p # NULL THEN bam_aux_del(@, p) ELSE @]
  /\ last' = Call("RemoveTag", h, tag, 0)
  /\ UNCHANGED <<b, cig, alias>>

\* the quality bytes are left out of the size to keep
RemoveAllTags_NoQual(h) ==
  /\ b[h] # NULL
  /\ LET r == Rec(h)
         keep == r.n_cigar * 4 + r.l_qname + ((r.l_qseq + 1) \div 2)
     IN /\ heap' = [heap EXCEPT ![b[h]] =
                      [@ EXCEPT !.data = SubSeq(r.data, 1, keep),
                                !.l_data = keep, !.m_data = keep]]
        /\ last' = Call("RemoveAllTags", h, <<>>, r.l_data)
  /\ UNCHANGED <<b, cig, alias>>

\* the packed sequence is sized l_qseq >> 1
RemoveAllTags_Floor(h) ==
  /\ b[h] # NULL
  /\ LET r == Rec(h)
         keep == r.n_cigar * 4 + r.l_qname + (r.l_qseq \div 2) + r.l_qseq
     IN /\ heap' = [heap EXCEPT ![b[h]] =
                      [@ EXCEPT !.data = SubSeq(r.data, 1, keep),
                                !.l_data = keep, !.m_data = keep]]
        /\ last' = Call("RemoveAllTags", h, <<>>, r.l_data)
  /\ UNCHANGED <<b, cig, alias>>

\* last.val records l_data as it was when the call was made
RemoveAllTags(h) ==
  /\ b[h] # NULL
  /\ LET r == Rec(h)
         keep == r.n_cigar * 4 + r.l_qname + ((r.l_qseq + 1) \div 2) + r.l_qseq
     IN /\ heap' = [heap EXCEPT ![b[h]] =
                      [@ EXCEPT !.data = SubSeq(r.data, 1, keep),
                                !.l_data = keep, !.m_data = keep]]
        /\ last' = Call("RemoveAllTags", h, <<>>, r.l_data)
  /\ UNCHANGED <<b, cig, alias>>

(***************************************************************************)
(* Tag specification: one record (two names, three CIGAR / query-length    *)
(* shapes), tags added, looked up and removed through its handle.          *)
(***************************************************************************)
NameRD == <<114, 100>>
TagXP == <<88, 80>>
TagNM == <<78, 77>>
Tags == {TagXP, TagNM}
IntVals == {7, -2}
ZVals == {<<97>>}

Shapes ==
  { <<<<>>, 0>>,
    <<<<bam_cigar_gen(2, 0)>>, 2>>,
    <<<<bam_cigar_gen(1, 4), bam_cigar_gen(2, 0)>>, 3>> }

Init ==
  /\ \E name \in {NameR, NameRD}, sh \in Shapes :
       heap = [i \in {1} |-> MakeRecord(name, sh[1], sh[2], 0, 0, 0, 0, 0)]
  /\ b = <<1>>
  /\ cig = <<>>
  /\ alias = {}
  /\ last = NoCall

Next ==
  \/ \E h \in DOMAIN b, tag \in Tags : CallGetIntTag(h, tag)
  \/ \E h \in DOMAIN b, tag \in Tags, val \in IntVals : AddIntTag(h, tag, val)
  \/ \E h \in DOMAIN b, tag \in Tags, val \in ZVals : AddZTag(h, tag, val)
  \/ \E h \in DOMAIN b, tag \in Tags : RemoveTag(h, tag)
  \/ \E h \in DOMAIN b : RemoveAllTags(h)

Spec == Init /\ [][Next]_vars

(***************************************************************************)
(* C5, C6, C8, C9: the tag store.                                          *)
(***************************************************************************)
Ceil2(n) == (n + (n % 2)) \div 2

\* size of the name + cigar + packed sequence + quality region
CoreSize(r) == 4 * r.n_cigar + r.l_qname + Ceil2(r.l_qseq) + r.l_qseq

\* the tag entries a byte string holds, in order
RECURSIVE ParseAux(_)
ParseAux(bytes) ==
  IF Len(bytes) < 3 THEN <<>>
  ELSE LET n == IF bytes[3] = 105 THEN 4
                ELSE (CHOOSE j \in 4..Len(bytes) :
                        bytes[j] = 0 /\ \A i \in 4..(j - 1) : bytes[i] # 0) - 3
       IN <<[key |-> <<bytes[1], bytes[2]>>, type |-> bytes[3],
             payload |-> SubSeq(bytes, 4, 3 + n)]>>
          \o ParseAux(SubSeq(bytes, 4 + n, Len(bytes)))

Entries(r) == ParseAux(SubSeq(r.data, CoreSize(r) + 1, Len(r.data)))

EntrySize(e) == 3 + Len(e.payload)

\* the int32 four little-endian bytes stand for
IntOf(p) ==
  p[1] + 256 * p[2] + 65536 * p[3] + 16777216 * (IF p[4] > 127 THEN p[4] - 256 ELSE p[4])

WithKey(es, k) == {i \in 1..Len(es) : es[i].key = k}
FirstWithKey(es, k) ==
  CHOOSE i \in 1..Len(es) : es[i].key = k /\ \A j \in 1..(i - 1) : es[j].key # k
RemoveAt(es, i) == SubSeq(es, 1, i - 1) \o SubSeq(es, i + 1, Len(es))

\* C5: GetIntTag(k) on a record with no entry of key k returns 0 and leaves
\* the record unchanged; after AddIntTag(k, v) on such a record GetIntTag(k)
\* returns v.
C5_Step ==
  last'.op = "GetIntTag" =>
    LET es == Entries(heap[b[last'.h]])
        k == last'.arg
    IN /\ heap' = heap /\ b' = b
       /\ WithKey(es, k) = {} => last'.val = 0
       /\ (last.op = "AddIntTag" /\ last.arg = k /\ Cardinality(WithKey(es, k)) = 1)
            => last'.val = last.val

C5_GetIntTagDefault == [][C5_Step]_vars

\* GetIntTag(k) answered 7 from the only entry of key k
C5_Witness ==
  /\ last.op = "GetIntTag" /\ last.val = 7
  /\ Cardinality(WithKey(Entries(Rec(last.h)), last.arg)) = 1

\* C6: after RemoveAllTags the buffer length is 4 * (number of CIGAR ops) +
\* name length + ceil(query length / 2) + query length, whatever the tags
\* before, and no tag remains: every GetIntTag returns 0.
C6_RemoveAllTagsLength ==
  last.op = "RemoveAllTags" =>
    LET r == Rec(last.h)
    IN /\ r.l_data = 4 * r.n_cigar + r.l_qname + Ceil2(r.l_qseq) + r.l_qseq
       /\ Len(r.data) = r.l_data
       /\ Entries(r) = <<>>
       /\ \A k \in Tags : GetIntTag(last.h, k) = 0

\* RemoveAllTags dropped at least two tags of a record of odd query length
C6_Witness ==
  /\ last.op = "RemoveAllTags"
  /\ Rec(last.h).l_qseq % 2 = 1
  /\ last.val >= Rec(last.h).l_data + 10

\* the value GetIntTag reads from the first entry of key k (0: none)
FirstIntValue(es, k) ==
  IF WithKey(es, k) = {} THEN 0
  ELSE LET e == es[FirstWithKey(es, k)]
       IN IF e.type = 105 THEN IntOf(e.payload) ELSE 0

\* C8: AddIntTag appends an entry after the entries there are, duplicate
\* keys included; removal keeps the order of the others; and GetIntTag(k)
\* returns the value of the first entry of key k, the earliest added one
\* still present.
C8_Step ==
  LET pre == Entries(heap[b[last'.h]])
      post == Entries(heap'[b'[last'.h]])
  IN /\ last'.op = "AddIntTag" =>
          /\ Len(post) = Len(pre) + 1
          /\ SubSeq(post, 1, Len(pre)) = pre
          /\ post[Len(post)].key = last'.arg
          /\ post[Len(post)].type = 105
          /\ Len(post[Len(post)].payload) = 4
          /\ IntOf(post[Len(post)].payload) = last'.val
     /\ last'.op = "RemoveTag" =>
          \/ post = pre
          \/ \E i \in 1..Len(pre) : post = RemoveAt(pre, i)
     /\ (last'.op = "GetIntTag" /\ WithKey(post, last'.arg) # {}
                               /\ post[FirstWithKey(post, last'.arg)].type = 105) =>
          last'.val = IntOf(post[FirstWithKey(post, last'.arg)].payload)

C8_FirstMatchWins == [][C8_Step]_vars

\* two int entries of the looked-up key with different values: the first won
C8_Witness ==
  /\ last.op = "GetIntTag"
  /\ LET es == Entries(Rec(last.h))
     IN \E i, j \in WithKey(es, last.arg) :
          /\ i < j /\ es[i].type = 105 /\ es[j].type = 105
          /\ \A n \in WithKey(es, last.arg) : i <= n
          /\ IntOf(es[i].payload) # IntOf(es[j].payload)
          /\ last.val = IntOf(es[i].payload)

\* C9: RemoveTag(k) removes the first entry of key k and nothing else: the
\* other entries keep order and values, the buffer shrinks by the size of
\* the removed entry, a later duplicate becomes what GetIntTag(k) returns,
\* and with no entry of key k the record is unchanged.
C9_Step ==
  last'.op = "RemoveTag" =>
    LET r == heap[b[last'.h]]
        q == heap'[b'[last'.h]]
        k == last'.arg
        pre == Entries(r)
    IN IF WithKey(pre, k) = {}
       THEN heap' = heap /\ b' = b
       ELSE LET i == FirstWithKey(pre, k)
            IN /\ Entries(q) = RemoveAt(pre, i)
               /\ q.l_data = r.l_data - EntrySize(pre[i])
               /\ Len(q.data) = q.l_data
               /\ SubSeq(q.data, 1, CoreSize(r)) = SubSeq(r.data, 1, CoreSize(r))
               /\ [q EXCEPT !.data = <<>>, !.l_data = 0] = [r EXCEPT !.data = <<>>, !.l_data = 0]
               /\ IntTagOf(q, k) = FirstIntValue(RemoveAt(pre, i), k)

C9_RemoveFirstOnly == [][C9_Step]_vars

\* after RemoveTag(k) an entry of key k is still there: a later duplicate
C9_Witness ==
  /\ last.op = "RemoveTag"
  /\ LET es == Entries(Rec(last.h))
     IN /\ WithKey(es, last.arg) # {}
        /\ Len(es) = 2
        /\ es[FirstWithKey(es, last.arg)].type = 105
        /\ FirstWithKey(es, last.arg) = 2

(***************************************************************************)
(* Field setters and copies of a record.                                   *)
(***************************************************************************)
\* core.qual is 8 bits wide
SetMapQuality(h, m) ==
  /\ b[h] # NULL
  /\ heap' = [heap EXCEPT ![b[h]].qual = m % 256]
  /\ last' = Call("SetMapQuality", h, <<>>, m)
  /\ UNCHANGED <<b, cig, alias>>

SetID(h, id) ==
  /\ b[h] # NULL
  /\ heap' = [heap EXCEPT ![b[h]].tid = id]
  /\ last' = Call("SetID", h, <<>>, id)
  /\ UNCHANGED <<b, cig, alias>>

SetPosition(h, pos) ==
  /\ b[h] # NULL
  /\ heap' = [heap EXCEPT ![b[h]].pos = pos]
  /\ last' = Call("SetPosition", h, <<>>, pos)
  /\ UNCHANGED <<b, cig, alias>>

CallPosition(h) ==
  /\ last' = Call("Position", h, <<>>, Position(h))
  /\ UNCHANGED <<heap, b, cig, alias>>

CallMapQuality(h) ==
  /\ last' = Call("MapQuality", h, <<>>, MapQuality(h))
  /\ UNCHANGED <<heap, b, cig, alias>>

CallChrID(h) ==
  /\ last' = Call("ChrID", h, <<>>, ChrID(h))
  /\ UNCHANGED <<heap, b, cig, alias>>

\* the buffers some handle of bb owns
Owned(bb) == {bb[h] : h \in DOMAIN bb} \ {NULL}

\* the handles known to be copies of src, src included
CopiesOf(src) == {src} \cup {g \in DOMAIN b : {src, g} \in alias}

\* the copy gets a buffer of its own holding the same bytes
Copy_Deep(dst, src) ==
  /\ dst # src
  /\ LET bb == [b EXCEPT ![dst] =
                  IF b[src] = NULL THEN NULL
                  ELSE CHOOSE n \in 1..(Len(b) + 1) : n \notin Owned([b EXCEPT ![dst] = NULL])]
     IN /\ b' = bb
        /\ heap' = [i \in Owned(bb) |-> IF i = bb[dst] THEN heap[b[src]] ELSE heap[i]]
  /\ alias' = {p \in alias : dst \notin p} \cup {{dst, g} : g \in CopiesOf(src) \ {dst}}
  /\ last' = Call("Copy", dst, <<src>>, 0)
  /\ UNCHANGED cig

\* dst = src: the shared_ptr member is copied, so dst owns what src owns,
\* and a bam1_t no handle owns any more is destroyed
Copy(dst, src) ==
  /\ dst # src
  /\ b' = [b EXCEPT ![dst] = b[src]]
  /\ heap' = [i \in Owned(b') |-> heap[i]]
  /\ alias' = {p \in alias : dst \notin p} \cup {{dst, g} : g \in CopiesOf(src) \ {dst}}
  /\ last' = Call("Copy", dst, <<src>>, 0)
  /\ UNCHANGED cig

(***************************************************************************)
(* Alias specification: two handles, each owning a record of its own,      *)
(* copied onto one another and mutated through either.                     *)
(***************************************************************************)
AliasTags == {TagXP}
AliasVals == {7}
AliasQuals == {0, 300}

InitAlias ==
  /\ heap = [i \in {1, 2} |->
               IF i = 1
               THEN MakeRecord(NameR, <<bam_cigar_gen(2, 0)>>, 2, 0, 0, 0, 0, 0)
               ELSE MakeRecord(NameRD, <<bam_cigar_gen(1, 4), bam_cigar_gen(2, 0)>>, 3,
                               0, 0, 1, 0, 0)]
  /\ b = <<1, 2>>
  /\ cig = <<>>
  /\ alias = {}
  /\ last = NoCall

NextAlias ==
  \/ \E dst \in DOMAIN b, src \in DOMAIN b : Copy(dst, src)
  \/ \E h \in DOMAIN b, m \in AliasQuals : SetMapQuality(h, m)
  \/ \E h \in DOMAIN b : SetPosition(h, MaxPos)
  \/ \E h \in DOMAIN b : SetID(h, MaxTid)
  \/ \E h \in DOMAIN b, tag \in AliasTags, val \in AliasVals : AddIntTag(h, tag, val)
  \/ \E h \in DOMAIN b, tag \in AliasTags : RemoveTag(h, tag)
  \/ \E h \in DOMAIN b : RemoveAllTags(h)
  \/ \E h \in DOMAIN b, tag \in AliasTags : CallGetIntTag(h, tag)
  \/ \E h \in DOMAIN b : CallPosition(h)
  \/ \E h \in DOMAIN b : CallMapQuality(h)
  \/ \E h \in DOMAIN b : CallChrID(h)

SpecAlias == InitAlias /\ [][NextAlias]_vars

(***************************************************************************)
(* C7: copies alias one buffer.                                            *)
(***************************************************************************)
\* what the read accessors return through handle h
View(h) ==
  [Position |-> Position(h), MatePosition |-> MatePosition(h),
   ChrID |-> ChrID(h), MateChrID |-> MateChrID(h),
   MapQuality |-> MapQuality(h),
   PairOrientation |-> PairOrientation(h),
   ProperOrientation |-> ProperOrientation(h),
   Length |-> IF b[h] = NULL THEN -1 ELSE Length(h),
   NumClip |-> IF b[h] = NULL THEN -1 ELSE NumClip(h),
   AlignmentPosition |-> IF b[h] = NULL THEN -1 ELSE AlignmentPosition(h),
   IntTags |-> IF b[h] = NULL THEN <<>>
               ELSE [t \in {TagXP, TagNM} |-> GetIntTag(h, t)],
   l_data |-> IF b[h] = NULL THEN -1 ELSE Rec(h).l_data]

\* C7: a copy shares the buffer of its original: whatever was mutated and
\* through whichever handle, every read accessor returns the same through
\* the handles that are copies of one another, and what an accessor call
\* returned is what every copy of its handle reads.
C7_CopiesAlias ==
  /\ \A p \in alias : \A h \in p, g \in p : View(h) = View(g)
  /\ \A g \in CopiesOf(last.h) \ {0} :
       /\ last.op = "Position" => Position(g) = last.val
       /\ last.op = "MapQuality" => MapQuality(g) = last.val
       /\ last.op = "ChrID" => ChrID(g) = last.val
       /\ (last.op = "GetIntTag" /\ b[g] # NULL) => GetIntTag(g, last.arg) = last.val
       /\ last.op = "SetPosition" => Position(g) = last.val
       /\ last.op = "SetID" => ChrID(g) = last.val
       /\ last.op = "SetMapQuality" => MapQuality(g) = last.val % 256
       /\ (last.op = "AddIntTag" /\ Cardinality(WithKey(Entries(Rec(g)), last.arg)) = 1)
            => GetIntTag(g, last.arg) = last.val
       /\ last.op = "RemoveAllTags" => Rec(g).l_data = CoreSize(Rec(g))

\* a tag added through one handle is read through its copy, after the
\* position and the mapping quality were set
C7_Witness ==
  /\ last.op = "AddIntTag"
  /\ \E g \in DOMAIN b :
       /\ g # last.h /\ {g, last.h} \in alias
       /\ GetIntTag(g, last.arg) = last.val
       /\ Position(g) = MaxPos /\ MapQuality(g) = 44

(***************************************************************************)
(* CigarField and the stand-alone Cigar.                                   *)
(***************************************************************************)
\* CigarField(uint32_t f): the field is the raw word
CigarField(f) == f
Type(c) == bam_cigar_opchr(c)
RawType(c) == bam_cigar_op(c)
FieldLength(c) == bam_cigar_oplen(c)

\* the query bit is tested instead of the reference bit
ConsumesReference_QueryBit(c) == BitAnd(bam_cigar_type(bam_cigar_op(c)), 1) # 0

ConsumesReference(c) == BitAnd(bam_cigar_type(bam_cigar_op(c)), 2) # 0

ConsumesQuery(c) == BitAnd(bam_cigar_type(bam_cigar_op(c)), 1) # 0

\* Cigar::add
add(c) ==
  /\ Len(cig) < MaxAdd
  /\ cig' = Append(cig, c)
  /\ last' = Call("add", 0, <<>>, c)
  /\ UNCHANGED <<heap, b, alias>>

\* an accessor applied to cig[i]
CallType(i) ==
  /\ last' = Call("Type", 0, i, Type(cig[i]))
  /\ UNCHANGED <<heap, b, cig, alias>>

CallRawType(i) ==
  /\ last' = Call("RawType", 0, i, RawType(cig[i]))
  /\ UNCHANGED <<heap, b, cig, alias>>

CallFieldLength(i) ==
  /\ last' = Call("Length", 0, i, FieldLength(cig[i]))
  /\ UNCHANGED <<heap, b, cig, alias>>

CallConsumesReference(i) ==
  /\ last' = Call("ConsumesReference", 0, i, ConsumesReference(cig[i]))
  /\ UNCHANGED <<heap, b, cig, alias>>

CallConsumesQuery(i) ==
  /\ last' = Call("ConsumesQuery", 0, i, ConsumesQuery(cig[i]))
  /\ UNCHANGED <<heap, b, cig, alias>>

(***************************************************************************)
(* Field specification: a Cigar built by add from raw words of every kind  *)
(* code and of the lengths 1 and 2^27 - 1 (the longest whose word is below  *)
(* 2^31), and the accessors applied to its fields.                         *)
(***************************************************************************)
KindCodes == 0..(Len(BAM_CIGAR_STR) - 1)
FieldLens == {1, 134217727}
FieldWords == {bam_cigar_gen(l, k) : l \in FieldLens, k \in KindCodes}

InitField ==
  /\ heap = <<>>
  /\ b = <<>>
  /\ cig = <<>>
  /\ alias = {}
  /\ last = NoCall

NextField ==
  \/ \E f \in FieldWords : add(CigarField(f))
  \/ \E i \in DOMAIN cig : CallType(i)
  \/ \E i \in DOMAIN cig : CallRawType(i)
  \/ \E i \in DOMAIN cig : CallFieldLength(i)
  \/ \E i \in DOMAIN cig : CallConsumesReference(i)
  \/ \E i \in DOMAIN cig : CallConsumesQuery(i)

SpecField == InitField /\ [][NextField]_vars

(***************************************************************************)
(* C10: consumes-reference / consumes-query.                               *)
(***************************************************************************)
KindNames ==
  <<"Match", "Insertion", "Deletion", "RefSkip", "SoftClip", "HardClip",
    "Padding", "SeqMatch", "SeqMismatch", "Back">>

\* the kind of a packed word: its low 4 bits
KindOf(w) == KindNames[(w % 16) + 1]

\* C10: ConsumesReference is true exactly for Match, Deletion, RefSkip,
\* SeqMatch, SeqMismatch and ConsumesQuery exactly for Match, Insertion,
\* SoftClip, SeqMatch, SeqMismatch; both are decided by the low 4 bits of
\* the word, whatever its length.
C10_ConsumesTable ==
  /\ last.op = "ConsumesReference" =>
       last.val = (KindOf(cig[last.arg]) \in
                     {"Match", "Deletion", "RefSkip", "SeqMatch", "SeqMismatch"})
  /\ last.op = "ConsumesQuery" =>
       last.val = (KindOf(cig[last.arg]) \in
                     {"Match", "Insertion", "SoftClip", "SeqMatch", "SeqMismatch"})
  /\ last.op = "RawType" => last.val = cig[last.arg] % 16
  /\ last.op = "Length" => last.val * 16 + (cig[last.arg] % 16) = cig[last.arg]

\* a soft clip of the longest length consumes the query
C10_Witness ==
  /\ last.op = "ConsumesQuery"
  /\ KindOf(cig[last.arg]) = "SoftClip"
  /\ cig[last.arg] \div 16 = 134217727
  /\ last.val = TRUE

(***************************************************************************)
(* CIGAR text: printing a record's CIGAR and parsing a text into a Cigar.  *)
(* A string is the sequence of its characters.                             *)
(***************************************************************************)
Digits == <<"0", "1", "2", "3", "4", "5", "6", "7", "8", "9">>

\* operator<< of an unsigned number: decimal, no leading zeros, "0" for 0
RECURSIVE Decimal(_)
Decimal(n) ==
  IF n < 10 THEN <<Digits[n + 1]>>
  ELSE Decimal(n \div 10) \o <<Digits[(n % 10) + 1]>>

\* the loop of CigarString from index k on, over the alphabet str; the
\* words of the records built here have kind codes below Len(str)
RECURSIVE CigarStringLoop(_, _, _)
CigarStringLoop(r, k, str) ==
  IF k < r.n_cigar
  THEN Decimal(bam_cigar_oplen(CigarWord(r, k)))
       \o <<str[(CigarWord(r, k) % (BAM_CIGAR_MASK + 1)) + 1]>>
       \o CigarStringLoop(r, k + 1, str)
  ELSE <<>>

\* the alphabet has S where N belongs
CigarString_SForN(h) ==
  CigarStringLoop(Rec(h), 0, <<"M", "I", "D", "S", "S", "H", "P", "=", "X", "B">>)

CigarString(h) == CigarStringLoop(Rec(h), 0, BAM_CIGAR_STR)

CallCigarString(h) ==
  /\ b[h] # NULL
  /\ last' = Call("CigarString", h, <<>>, CigarString(h))
  /\ UNCHANGED <<heap, b, cig, alias>>

\* the kind characters the parser recognizes
cigar_delimiters == <<"M", "I", "D", "N", "S", "H", "P", "X">>

IsDigit(c) == \E i \in 1..Len(Digits) : Digits[i] = c
IsDelimiter(c) == \E i \in 1..Len(cigar_delimiters) : cigar_delimiters[i] = c

\* the number a digit run stands for
RECURSIVE DigitRunValue(_)
DigitRunValue(run) ==
  IF run = <<>> THEN 0
  ELSE 10 * DigitRunValue(SubSeq(run, 1, Len(run) - 1))
       + (CHOOSE i \in 0..9 : Digits[i + 1] = run[Len(run)])

\* CigarField(char t, uint32_t l): the kind code of t is its index in the
\* kind alphabet
CigarFieldOf(t, l) ==
  bam_cigar_gen(l, (CHOOSE i \in 1..Len(BAM_CIGAR_STR) : BAM_CIGAR_STR[i] = t) - 1)

\* the walk of cigarFromString from character i (1-based) on: run is the
\* digit run read so far, out the fields added so far.  A kind character
\* closes the run before it; anything else than a digit or a recognized
\* kind character, a kind character with no digits before it, and a digit
\* run the text ends in are format errors.
RECURSIVE ParseWalk(_, _, _, _)
ParseWalk(text, i, run, out) ==
  IF i > Len(text)
  THEN IF run = <<>> THEN [ok |-> TRUE, cig |-> out] ELSE [ok |-> FALSE, cig |-> <<>>]
  ELSE IF IsDigit(text[i]) THEN ParseWalk(text, i + 1, Append(run, text[i]), out)
  ELSE IF IsDelimiter(text[i]) /\ run # <<>>
       THEN ParseWalk(text, i + 1, <<>>,
                      Append(out, CigarFieldOf(text[i], DigitRunValue(run))))
  ELSE [ok |-> FALSE, cig |-> <<>>]

cigarFromString(text) == ParseWalk(text, 1, <<>>, <<>>)

\* cig = cigarFromString(text), as the first call made; a FormatError
\* leaves cig as it was and is logged as the value FALSE
CallCigarFromString(text) ==
  /\ last = NoCall
  /\ cig' = IF cigarFromString(text).ok THEN cigarFromString(text).cig ELSE cig
  /\ last' = Call("cigarFromString", 0, text, cigarFromString(text).ok)
  /\ UNCHANGED <<heap, b, alias>>

\* summed length of the fields of c that consume the query
RECURSIVE QueryLength(_)
QueryLength(c) ==
  IF c = <<>> THEN 0
  ELSE (IF ConsumesQuery(Head(c)) THEN FieldLength(Head(c)) ELSE 0) + QueryLength(Tail(c))

\* BamRecord(name, seq, gr, cig) right after cig was parsed, with a sequence
\* of the length cig asks for; the log keeps the text cig was parsed from
Construct ==
  /\ b = <<>>
  /\ last.op = "cigarFromString" /\ last.val
  /\ heap' = [i \in {1} |-> MakeRecord(NameR, cig, QueryLength(cig), 0, 0, 0, 0, 0)]
  /\ b' = <<1>>
  /\ last' = Call("BamRecord", 1, last.arg, 0)
  /\ UNCHANGED <<cig, alias>>

(***************************************************************************)
(* Text specification: a text of at most MaxText characters, or the text   *)
(* 35M10I5M, is parsed into the Cigar; a record is constructed from the    *)
(* Cigar and its CIGAR is printed.                                         *)
(***************************************************************************)
MaxText == 4     \* a parsed text has at most MaxText characters

TextChars == {"0", "1", "5", "M", "N", "X", "=", "Z"}
ExampleText == <<"3", "5", "M", "1", "0", "I", "5", "M">>
Texts == UNION {[1..n -> TextChars] : n \in 0..MaxText} \cup {ExampleText}

InitText ==
  /\ heap = <<>>
  /\ b = <<>>
  /\ cig = <<>>
  /\ alias = {}
  /\ last = NoCall

NextText ==
  \/ \E text \in (IF last = NoCall THEN Texts ELSE {}) : CallCigarFromString(text)
  \/ Construct
  \/ \E h \in DOMAIN b : CallCigarString(h)

SpecText == InitText /\ [][NextText]_vars

(***************************************************************************)
(* C11: CIGAR text round trip.                                             *)
(***************************************************************************)
RecognizedKinds == {"M", "I", "D", "N", "S", "H", "P", "X"}

\* every operation is a decimal length without leading zeros followed by
\* one recognized kind character
Canonical(t) ==
  /\ \A i \in 1..Len(t) : IsDigit(t[i]) \/ t[i] \in RecognizedKinds
  /\ Len(t) > 0 => ~IsDigit(t[Len(t)])
  /\ \A i \in 1..Len(t) : ~IsDigit(t[i]) => (i > 1 /\ IsDigit(t[i - 1]))
  /\ \A i \in 1..(Len(t) - 1) :
       (t[i] = "0" /\ (i = 1 \/ ~IsDigit(t[i - 1]))) => ~IsDigit(t[i + 1])

HasUnrecognized(t) ==
  \E i \in 1..Len(t) : ~IsDigit(t[i]) /\ t[i] \notin RecognizedKinds

EndsInDigits(t) == Len(t) > 0 /\ IsDigit(t[Len(t)])

\* length, then the character at index kind code of MIDNSHP=XB, per operation
TextOf(ops) ==
  Flatten([i \in 1..Len(ops) |->
             Decimal(ops[i][2])
             \o <<(<<"M", "I", "D", "N", "S", "H", "P", "=", "X", "B">>)[ops[i][1] + 1]>>])

\* C11: parsing a canonical CIGAR text (each operation a decimal length
\* without leading zeros followed by one recognized kind character) succeeds,
\* and printing the CIGAR of the record constructed from it yields the
\* identical text; printing emits, per operation in stored order, the
\* length followed by the character at index kind code of MIDNSHP=XB; and
\* parsing fails with a format error, leaving the Cigar alone, on an
\* unrecognized character or a digit run with no kind character after it.
C11_Step ==
  /\ last'.op = "cigarFromString" =>
       /\ (HasUnrecognized(last'.arg) \/ EndsInDigits(last'.arg))
            => (~last'.val /\ cig' = cig)
       /\ Canonical(last'.arg) => last'.val
  /\ last'.op = "CigarString" =>
       /\ last'.val = TextOf(OpsOf(heap'[b'[last'.h]]))
       /\ (last.op = "BamRecord" /\ Canonical(last.arg)) => last'.val = last.arg

C11_CigarTextRoundTrip == [][C11_Step]_vars

\* 35M10I5M was parsed, a record constructed from it and its CIGAR printed
C11_Witness ==
  /\ last.op = "CigarString"
  /\ last.val = ExampleText
  /\ cig = <<bam_cigar_gen(35, 0), bam_cigar_gen(10, 1), bam_cigar_gen(5, 0)>>

(***************************************************************************)
(* The reverse-orientation routines and the reversed Cigar.                *)
(***************************************************************************)
GetCigar(h) ==
  [k \in 1..Rec(h).n_cigar |-> CigarField(CigarWord(Rec(h), k - 1))]

GetReverseCigar(h) ==
  [k \in 1..Rec(h).n_cigar |-> CigarField(CigarWord(Rec(h), Rec(h).n_cigar - k))]

\* the scan runs up from the first operation, as in AlignmentPosition
AlignmentPositionReverse_Forward(h) == ClipScan(Rec(h), 0, 1, 0)

AlignmentPositionReverse(h) == ClipScan(Rec(h), Rec(h).n_cigar - 1, -1, 0)

AlignmentEndPositionReverse(h) == Rec(h).l_qseq - ClipScan(Rec(h), 0, 1, 0)

CallAlignmentPositionReverse(h) ==
  /\ b[h] # NULL
  /\ last' = Call("AlignmentPositionReverse", h, <<>>, AlignmentPositionReverse(h))
  /\ UNCHANGED <<heap, b, cig, alias>>

CallAlignmentEndPositionReverse(h) ==
  /\ b[h] # NULL
  /\ last' = Call("AlignmentEndPositionReverse", h, <<>>, AlignmentEndPositionReverse(h))
  /\ UNCHANGED <<heap, b, cig, alias>>

\* cig = GetReverseCigar(), while the record is the only one
CallGetReverseCigar(h) ==
  /\ b[h] # NULL
  /\ Len(b) = 1
  /\ cig' = GetReverseCigar(h)
  /\ last' = Call("GetReverseCigar", h, <<>>, 0)
  /\ UNCHANGED <<heap, b, alias>>

\* BamRecord(name, seq, gr, cig) right after cig was taken from handle
\* last.h, with a sequence as long as that record's: a second record, with
\* a handle of its own
ConstructReversed ==
  /\ last.op = "GetReverseCigar"
  /\ Len(b) = 1
  /\ LET n == CHOOSE i \in 1..(Len(b) + 1) : i \notin Owned(b)
     IN /\ heap' = [i \in Owned(b) \cup {n} |->
                      IF i = n THEN MakeRecord(NameR, cig, Length(last.h), 0, 0, 0, 0, 0)
                      ELSE heap[i]]
        /\ b' = Append(b, n)
  /\ last' = Call("BamRecord", Len(b) + 1, <<>>, 0)
  /\ UNCHANGED <<cig, alias>>

(***************************************************************************)
(* Reverse specification: the records of the clip specification, the       *)
(* reverse routines called on them, and a second record constructed from   *)
(* the reversed Cigar of the first.                                        *)
(***************************************************************************)
NextReverse ==
  \/ \E h \in DOMAIN b : CallAlignmentPositionReverse(h)
  \/ \E h \in DOMAIN b : CallAlignmentEndPositionReverse(h)
  \/ \E h \in DOMAIN b : CallGetReverseCigar(h)
  \/ ConstructReversed

SpecReverse == InitCigar /\ [][NextReverse]_vars

(***************************************************************************)
(* C12: the reverse routines.                                              *)
(***************************************************************************)
RECURSIVE ReverseOps(_)
ReverseOps(ops) == IF ops = <<>> THEN <<>> ELSE Append(ReverseOps(Tail(ops)), Head(ops))

\* C12: AlignmentPositionReverse is the summed length of the trailing clip
\* run and AlignmentEndPositionReverse the query length minus the summed
\* length of the leading clip run; they are AlignmentPosition and
\* AlignmentEndPosition of the record whose CIGAR is the reversal that
\* GetReverseCigar returns; and AlignmentPositionReverse = Length -
\* AlignmentEndPosition, AlignmentEndPositionReverse = Length -
\* AlignmentPosition.
C12_ReverseRoutines ==
  /\ last.op = "AlignmentPositionReverse" =>
       /\ last.val = TrailClip(OpsOf(Rec(last.h)))
       /\ last.val = Length(last.h) - AlignmentEndPosition(last.h)
  /\ last.op = "AlignmentEndPositionReverse" =>
       /\ last.val = Length(last.h) - LeadClip(OpsOf(Rec(last.h)))
       /\ last.val = Length(last.h) - AlignmentPosition(last.h)
  /\ last.op = "GetReverseCigar" =>
       [i \in 1..Len(cig) |-> <<cig[i] % 16, cig[i] \div 16>>]
         = ReverseOps(OpsOf(Rec(last.h)))
  /\ Len(b) = 2 =>
       /\ OpsOf(Rec(2)) = ReverseOps(OpsOf(Rec(1)))
       /\ Length(2) = Length(1)
       /\ AlignmentPositionReverse(1) = AlignmentPosition(2)
       /\ AlignmentEndPositionReverse(1) = AlignmentEndPosition(2)
       /\ AlignmentPositionReverse(2) = AlignmentPosition(1)
       /\ AlignmentEndPositionReverse(2) = AlignmentEndPosition(1)

\* AlignmentPositionReverse was called on a record with a shorter leading
\* than trailing clip run, after the record of its reversed CIGAR was made
C12_Witness ==
  /\ last.op = "AlignmentPositionReverse" /\ last.h = 1
  /\ Len(b) = 2
  /\ AlignmentPosition(1) = 1
  /\ last.val = 2
  /\ AlignmentPosition(2) = 2

(***************************************************************************)
(* C13: the aligned interval on the read.                                  *)
(***************************************************************************)
\* the CigarSequence invariants of the record behind h: the lengths of the
\* operations that consume the query sum to the stored query length, and
\* clips lie in the leading or the trailing run only
CigarSequenceInvariant(h) ==
  LET ops == OpsOf(Rec(h))
  IN /\ QueryLength(GetCigar(h)) = Length(h)
     /\ \A i \in 1..Len(ops) :
          ClipKind(ops[i]) => (i <= LeadRun(ops) \/ i > Len(ops) - TrailRun(ops))

HasNonClip(h) == \E i \in 1..Len(OpsOf(Rec(h))) : ~ClipKind(OpsOf(Rec(h))[i])

\* C13: for a record that satisfies the CigarSequence invariants and has an
\* operation that is no clip, 0 <= AlignmentPosition <= AlignmentEndPosition
\* <= Length, with soft clips and with hard clips.
C13_AlignedIntervalWellFormed ==
  (/\ last.op \in {"AlignmentPosition", "AlignmentEndPosition"}
   /\ CigarSequenceInvariant(last.h)
   /\ HasNonClip(last.h)) =>
     /\ 0 <= AlignmentPosition(last.h)
     /\ AlignmentPosition(last.h) <= AlignmentEndPosition(last.h)
     /\ AlignmentEndPosition(last.h) <= Length(last.h)

(***************************************************************************)
(* Frame specification: one record (four flag words, the mate at or after  *)
(* the read, four CIGAR shapes), tags added and removed through its        *)
(* handle, and the orientation, clip and text accessors called.            *)
(***************************************************************************)
\* unpaired; paired with both forward, the mate reverse, the read reverse
FrameFlags ==
  {0, BAM_FPAIRED, BAM_FPAIRED + BAM_FMREVERSE, BAM_FPAIRED + BAM_FREVERSE}

FrameShapes ==
  Shapes \cup
  { <<<<bam_cigar_gen(1, 5), bam_cigar_gen(2, 0), bam_cigar_gen(1, 4)>>, 3>> }

InitFrame ==
  /\ \E flag \in FrameFlags, mpos \in {0, MaxPos}, sh \in FrameShapes :
       heap = [i \in {1} |-> MakeRecord(NameR, sh[1], sh[2], flag, 0, 0, 0, mpos)]
  /\ b = <<1>>
  /\ cig = <<>>
  /\ alias = {}
  /\ last = NoCall

NextFrame ==
  \/ \E h \in DOMAIN b, tag \in Tags : AddIntTag(h, tag, 7)
  \/ \E h \in DOMAIN b, tag \in Tags : RemoveTag(h, tag)
  \/ \E h \in DOMAIN b : RemoveAllTags(h)
  \/ \E h \in DOMAIN b : CallPairOrientation(h)
  \/ \E h \in DOMAIN b : CallProperOrientation(h)
  \/ \E h \in DOMAIN b : CallAlignmentPosition(h)
  \/ \E h \in DOMAIN b : CallAlignmentEndPosition(h)
  \/ \E h \in DOMAIN b : CallNumClip(h)
  \/ \E h \in DOMAIN b : CallCigarString(h)

SpecFrame == InitFrame /\ [][NextFrame]_vars

(***************************************************************************)
(* C14: tag mutations leave the rest of the record alone.                  *)
(***************************************************************************)
\* the core fields of r and the name, CIGAR, sequence and quality bytes
\* (-1 where the buffer ends before them)
CoreOf(r) ==
  [flag |-> r.flag, tid |-> r.tid, pos |-> r.pos, mtid |-> r.mtid, mpos |-> r.mpos,
   qual |-> r.qual, l_qname |-> r.l_qname, n_cigar |-> r.n_cigar, l_qseq |-> r.l_qseq,
   bytes |-> [i \in 1..CoreSize(r) |-> IF i <= Len(r.data) THEN r.data[i] ELSE -1]]

\* what the derived-field routines return through handle h
Derived(h) ==
  [PairOrientation |-> PairOrientation(h),
   ProperOrientation |-> ProperOrientation(h),
   AlignmentPosition |-> AlignmentPosition(h),
   AlignmentEndPosition |-> AlignmentEndPosition(h),
   NumClip |-> NumClip(h),
   CigarString |-> CigarString(h)]

\* C14: AddIntTag, RemoveTag and RemoveAllTags change only the tag region
\* and the buffer length: flags, positions, reference ids, mapping quality,
\* name, CIGAR, query length, sequence and quality bytes stay as they are,
\* and PairOrientation, ProperOrientation, AlignmentPosition,
\* AlignmentEndPosition, NumClip and CigarString return after the mutation
\* what they returned before it.
C14_Step ==
  last'.op \in {"AddIntTag", "RemoveTag", "RemoveAllTags"} =>
    /\ b' = b
    /\ \A h \in DOMAIN b :
         /\ CoreOf(heap'[b'[h]]) = CoreOf(heap[b[h]])
         /\ heap'[b'[h]].l_data = Len(heap'[b'[h]].data)
         /\ Derived(h)' = Derived(h)

C14_TagMutationsFrame == [][C14_Step]_vars

\* RemoveAllTags dropped tags added before it from a mate-reverse pair with
\* a hard clip in front and a soft clip at the end
C14_Witness ==
  /\ last.op = "RemoveAllTags"
  /\ last.val >= Rec(last.h).l_data + 14
  /\ PairOrientation(last.h) = FRORIENTATION
  /\ ProperOrientation(last.h)
  /\ AlignmentPosition(last.h) = 1 /\ AlignmentEndPosition(last.h) = 2
  /\ NumClip(last.h) = 2
  /\ CigarString(last.h) = <<"1", "H", "2", "M", "1", "S">>

====
